---- MODULE Spec2Model ----
(***************************************************************************)
(* A model of opb-offline.py: the show/season/episode catalogue, the       *)
(* three-stage video URL resolution, the file naming and duplicate check,  *)
(* and the download loop with its retried rename.                          *)
(*                                                                         *)
(* Text is modelled as sequences of one-character strings, so that         *)
(* formatting, parsing and regular-expression matching are computed and    *)
(* not assumed.                                                            *)
(***************************************************************************)
EXTENDS Integers, Sequences, FiniteSets, TLC

VARIABLES
    \* ---- the run: Show, get_show, get_season, get_episode, rename_file
    pc,             \* position of the (single-threaded) program
    options,        \* the season selector's option values, in page order
    seasons,        \* Show.seasons
    has_specials,   \* Show.has_specials
    seasonCalls,    \* the get_season calls made so far, in order
    seasonIdx,      \* get_show: number of show.seasons entries consumed
    episodes,       \* curr_season.episodes of the season being fetched
    epIdx,          \* get_season: number of get_episode calls made
    requests,       \* get_video_url: the requests made by the current call
    playerPage,     \* get_video_url: the stage-2 player page received
    cond,           \* the non-recoverable condition met by the current call
    exc,            \* the last exception raised while on this episode
    ran,            \* external tools run for the current episode
    tempFile,       \* whether temp.mp4 exists
    audio_channels, \* Episode.audio_channels after the probe
    tries,          \* retry: attempts left for rename_file
    attempts,       \* os.rename calls made by the current rename_file call
    renamed,        \* "none" | "ok" | "raised": how rename_file ended
    \* ---- Season._populate's sort
    pyver,          \* which list.sort run detection the interpreter has
    scan,           \* the episodes in page-scan order
    sorted,         \* the episodes after sorted(), or <<>> before
    sortDone,
    \* ---- Season._populate's classification of one metadata fragment
    frag,           \* how the fragment was written by the site
    info,           \* the fragment's text
    parsed,         \* the Episode fields derived from it
    \* ---- naming and the duplicate check
    nm              \* the naming scenario: episode, attributes, folder, results

varsRun == <<pc, options, seasons, has_specials, seasonCalls, seasonIdx,
             episodes, epIdx, requests, playerPage, cond, exc, ran, tempFile,
             audio_channels, tries, attempts, renamed>>
varsSort == <<pyver, scan, sorted, sortDone>>
varsParse == <<frag, info, parsed>>
varsName == <<nm>>
vars == <<varsRun, varsSort, varsParse, varsName>>

(***************************************************************************)
(* Bounds of the model.                                                    *)
(***************************************************************************)
MaxSeason == 2      \* season numbers offered by the selector: 1..MaxSeason
MaxEpisodes == 2    \* episodes per season page in the run
MaxScan == 4        \* episodes per season page in the sort
MaxNum == 3         \* episode numbers in the sort: 0..MaxNum

(***************************************************************************)
(* Python values.                                                          *)
(***************************************************************************)
NoneVal == -1       \* Python's None in an int-or-None field

Truthy(n) == n # NoneVal /\ n # 0

Digit == <<"0", "1", "2", "3", "4", "5", "6", "7", "8", "9">>

DigitChars == {Digit[i] : i \in 1..10}

DigitVal(c) == (CHOOSE i \in 1..10 : Digit[i] = c) - 1

RECURSIVE ParseInt(_)
\* int(s) for a string of decimal digits
ParseInt(s) ==
    IF s = <<>> THEN 0
    ELSE 10 * ParseInt(SubSeq(s, 1, Len(s) - 1)) + DigitVal(s[Len(s)])

RECURSIVE Str(_)
\* str(n), and f'{n}', for n >= 0
Str(n) == IF n < 10 THEN <<Digit[n + 1]>> ELSE Str(n \div 10) \o <<Digit[(n % 10) + 1]>>

\* f'{n:02d}' for n >= 0
Fmt02d(n) == IF n < 10 THEN <<"0">> \o Str(n) ELSE Str(n)

Whitespace == {" ", "\n", "\t"}

RECURSIVE LStrip(_)
LStrip(s) == IF s # <<>> /\ s[1] \in Whitespace THEN LStrip(Tail(s)) ELSE s

RECURSIVE RStrip(_)
RStrip(s) ==
    IF s # <<>> /\ s[Len(s)] \in Whitespace THEN RStrip(SubSeq(s, 1, Len(s) - 1)) ELSE s

\* str.strip()
Strip(s) == RStrip(LStrip(s))

(***************************************************************************)
(* Regular expressions (Python's re), for the patterns the program uses:   *)
(* literals, ".", the escapes \d \w \n and escaped punctuation, the        *)
(* quantifiers + {m} {m,n}, and groups without quantifier.  A group's      *)
(* parentheses match no text.                                              *)
(***************************************************************************)
Lower == <<"a", "b", "c", "d", "e", "f", "g", "h", "i", "j", "k", "l", "m", "n", "o", "p", "q", "r", "s", "t", "u", "v", "w", "x", "y", "z">>

Upper == <<"A", "B", "C", "D", "E", "F", "G", "H", "I", "J", "K", "L", "M", "N", "O", "P", "Q", "R", "S", "T", "U", "V", "W", "X", "Y", "Z">>

Letters == {Lower[i] : i \in 1..26} \cup {Upper[i] : i \in 1..26}

\* \w
WordChars == Letters \cup DigitChars \cup {"_"}

Punctuation == {" ", ".", "-", "|", "/", "(", ")", ",", ":", ";", "'", "?", "\\"}

\* "." matches every character but the newline
AnyChar == WordChars \cup Punctuation

\* str.upper() of one character
UpperChar(c) ==
    IF \E i \in 1..26 : Lower[i] = c THEN Upper[CHOOSE i \in 1..26 : Lower[i] = c] ELSE c

\* str.upper()
ToUpper(s) == [i \in 1..Len(s) |-> UpperChar(s[i])]

\* the characters an escape \c matches
EscapeSet(c) ==
    CASE c = "d" -> DigitChars
      [] c = "w" -> WordChars
      [] c = "n" -> {"\n"}
      [] OTHER -> {c}

\* the quantifier at p[j], if any, and the index after it
Quantifier(p, j) ==
    IF j <= Len(p) /\ p[j] = "+"
    THEN [min |-> 1, max |-> 1, more |-> TRUE, next |-> j + 1]
    ELSE IF j + 2 <= Len(p) /\ p[j] = "{" /\ p[j + 2] = "}"
    THEN [min |-> DigitVal(p[j + 1]), max |-> DigitVal(p[j + 1]), more |-> FALSE,
          next |-> j + 3]
    ELSE IF j + 4 <= Len(p) /\ p[j] = "{" /\ p[j + 2] = "," /\ p[j + 4] = "}"
    THEN [min |-> DigitVal(p[j + 1]), max |-> DigitVal(p[j + 3]), more |-> FALSE,
          next |-> j + 5]
    ELSE [min |-> 1, max |-> 1, more |-> FALSE, next |-> j]

RECURSIVE Compile(_, _)
\* re.compile of the pattern text p from index i: a sequence of repeated
\* character sets
Compile(p, i) ==
    IF i > Len(p) THEN <<>>
    ELSE IF p[i] \in {"(", ")"} THEN Compile(p, i + 1)
    ELSE LET esc == p[i] = "\\"
             set == IF esc THEN EscapeSet(p[i + 1])
                    ELSE IF p[i] = "." THEN AnyChar
                    ELSE {p[i]}
             q == Quantifier(p, IF esc THEN i + 2 ELSE i + 1)
         IN  <<[set |-> set, min |-> q.min, max |-> q.max, more |-> q.more]>>
                 \o Compile(p, q.next)

RECURSIVE MatchEnds(_, _, _, _)
\* the indices at which a match of toks[k..] that starts at text[i] can end
MatchEnds(toks, k, text, i) ==
    IF k > Len(toks) THEN {i}
    ELSE LET t == toks[k]
             room == Len(text) - i + 1
             most == IF t.more \/ t.max > room THEN room ELSE t.max
             lens == {n \in t.min..most : \A j \in 0..(n - 1) : text[i + j] \in t.set}
         IN  UNION {MatchEnds(toks, k + 1, text, i + n) : n \in lens}

\* re.search(pattern, text) is not None
ReSearch(pattern, text) ==
    LET toks == Compile(pattern, 1)
    IN  \E i \in 1..(Len(text) + 1) : MatchEnds(toks, 1, text, i) # {}

SetMax(S) == CHOOSE x \in S : \A y \in S : y <= x

SetMin(S) == CHOOSE x \in S : \A y \in S : x <= y

\* the matches of pre, then the group grp, then one of the alternatives posts,
\* that start at text[i]: the (start, end) index pairs of the group
GroupSpans(rx, text, i) ==
    {<<b, e>> \in (1..(Len(text) + 1)) \X (1..(Len(text) + 1)) :
        /\ b \in MatchEnds(Compile(rx.pre, 1), 1, text, i)
        /\ e \in MatchEnds(Compile(rx.grp, 1), 1, text, b)
        /\ \E a \in 1..Len(rx.posts) : MatchEnds(Compile(rx.posts[a], 1), 1, text, e) # {}}

\* re.search(pre (grp) (post1|post2...), text): whether it matches, and the
\* text of the group in the leftmost match, the quantifiers being greedy
ReSearchGroup(rx, text) ==
    LET starts == {i \in 1..(Len(text) + 1) : GroupSpans(rx, text, i) # {}}
    IN  IF starts = {} THEN [found |-> FALSE, group |-> <<>>]
        ELSE LET spans == GroupSpans(rx, text, SetMin(starts))
                 b == SetMax({sp[1] : sp \in spans})
                 e == SetMax({sp[2] : sp \in {x \in spans : x[1] = b}})
             IN  [found |-> TRUE, group |-> SubSeq(text, b, e - 1)]

(***************************************************************************)
(* sorted(self.episodes): list.sort on fewer than 64 elements is one run   *)
(* found by count_run, extended by binary insertion.  Episode.__lt__ is    *)
(* not a strict weak order, so the result depends on the run detection of  *)
(* the interpreter: "legacy" is CPython 3.8 to 3.12, "equalruns" is        *)
(* CPython 3.13 and later (descending runs may hold all-equal sub-runs).   *)
(***************************************************************************)
PyVersions == {"legacy", "equalruns"}

\* Episode.__lt__
EpisodeLt(self, other) ==
    IF Truthy(self.num) /\ Truthy(other.num) THEN self.num < other.num ELSE FALSE

ReverseSlice(a, lo, hi) ==
    [i \in 1..Len(a) |-> IF lo <= i /\ i <= hi THEN a[lo + hi - i] ELSE a[i]]

RECURSIVE AscRunEnd(_, _)
\* the length of the run a[1..n] extended while the next is not smaller
AscRunEnd(a, n) ==
    IF n < Len(a) /\ ~EpisodeLt(a[n + 1], a[n]) THEN AscRunEnd(a, n + 1) ELSE n

RECURSIVE DescRunEnd(_, _)
\* the length of the run a[1..n] extended while the next is strictly smaller
DescRunEnd(a, n) ==
    IF n < Len(a) /\ EpisodeLt(a[n + 1], a[n]) THEN DescRunEnd(a, n + 1) ELSE n

\* count_run of CPython 3.8-3.12, with the reversal of a descending run
CountRunLegacy(a) ==
    IF EpisodeLt(a[2], a[1])
    THEN LET n == DescRunEnd(a, 2) IN [n |-> n, a |-> ReverseSlice(a, 1, n)]
    ELSE [n |-> AscRunEnd(a, 2), a |-> a]

\* REVERSE_LAST_NEQ: the last neq+1 of the first n elements are all equal
ReverseLastNeq(a, n, neq) == IF neq > 0 THEN ReverseSlice(a, n - neq, n) ELSE a

\* the end of a descending run: reverse it, then extend it upwards
FinishDescending(a, n, neq) ==
    LET b == ReverseSlice(ReverseLastNeq(a, n, neq), 1, n)
    IN  [n |-> AscRunEnd(b, n), a |-> b]

RECURSIVE DescendingLoop(_, _, _)
DescendingLoop(a, n, neq) ==
    IF n < Len(a)
    THEN IF EpisodeLt(a[n + 1], a[n])
         THEN DescendingLoop(ReverseLastNeq(a, n, neq), n + 1, 0)
         ELSE IF EpisodeLt(a[n], a[n + 1])
              THEN FinishDescending(a, n, neq)
              ELSE DescendingLoop(a, n + 1, neq + 1)
    ELSE FinishDescending(a, n, neq)

\* count_run of CPython 3.13+
CountRunEqualRuns(a) ==
    LET n == AscRunEnd(a, 1)
    IN  IF n = Len(a) THEN [n |-> n, a |-> a]
        ELSE IF n > 1 /\ EpisodeLt(a[1], a[n]) THEN [n |-> n, a |-> a]
        ELSE DescendingLoop(IF n > 1 THEN ReverseSlice(a, 1, n) ELSE a, n + 1, 0)

RECURSIVE BinaryPos(_, _, _, _)
\* binarysort's search: where pivot belongs in the sorted a[l..r-1]
BinaryPos(a, pivot, l, r) ==
    IF l >= r THEN l
    ELSE LET p == (l + r) \div 2
         IN  IF EpisodeLt(pivot, a[p])
             THEN BinaryPos(a, pivot, l, p)
             ELSE BinaryPos(a, pivot, p + 1, r)

\* move a[start] down to position pos
InsertAt(a, start, pos) ==
    [i \in 1..Len(a) |->
        IF i = pos THEN a[start]
        ELSE IF pos < i /\ i <= start THEN a[i - 1]
        ELSE a[i]]

RECURSIVE BinarySort(_, _)
\* binarysort: a[1..start-1] is sorted; insert the rest one by one
BinarySort(a, start) ==
    IF start > Len(a) THEN a
    ELSE BinarySort(InsertAt(a, start, BinaryPos(a, a[start], 1, start)), start + 1)

\* sorted(a) on the interpreter ver
ListSort(a, ver) ==
    IF Len(a) < 2 THEN a
    ELSE LET run == IF ver = "legacy" THEN CountRunLegacy(a) ELSE CountRunEqualRuns(a)
         IN  BinarySort(run.a, run.n + 1)

\* the Episode objects appended in page-scan order; pos is the scan position
MkEpisodes(nums) == [i \in 1..Len(nums) |-> [num |-> nums[i], pos |-> i]]

SeqsUpTo(S, n) == UNION {[1..k -> S] : k \in 0..n}

(***************************************************************************)
(* The run: Show(show_key), get_show, get_season, get_episode,             *)
(* Episode.get_video_url and rename_file, one action per step between two  *)
(* interactions with the site, the tools or the file system.               *)
(***************************************************************************)
NoExc == [type |-> "none", msg |-> <<>>]

Raise(type, msg) == [type |-> type, msg |-> msg]

SeasonDoesNotExistMsg == <<"S", "e", "a", "s", "o", "n", " ", "d", "o", "e", "s", " ", "n", "o", "t", " ", "e", "x", "i", "s", "t">>

TokenNotFoundMsg == <<"V", "i", "d", "e", "o", " ", "r", "e", "d", "i", "r", "e", "c", "t", " ", "t", "o", "k", "e", "n", " ", "n", "o", "t", " ", "f", "o", "u", "n", "d">>

\* the selector pages the site can serve: no selector, or one listing some of
\* the seasons 1..MaxSeason once each, in any order, as option value strings
OptionLists ==
    {s \in SeqsUpTo({Str(n) : n \in 1..MaxSeason}, MaxSeason) :
        Len(s) > 0 /\ \A i, j \in 1..Len(s) : i # j => s[i] # s[j]}

SelectorPages ==
    {[selector |-> FALSE, values |-> <<>>]}
        \cup {[selector |-> TRUE, values |-> v] : v \in OptionLists}

RECURSIVE CollectSeasons(_, _)
\* for curr_season in ...find_all('option'): self.seasons.insert(0, int(value))
CollectSeasons(values, acc) ==
    IF values = <<>> THEN acc
    ELSE CollectSeasons(Tail(values), <<ParseInt(Head(values))>> \o acc)

\* Show._populate's season list
ShowSeasons(page) ==
    IF page.selector THEN CollectSeasons(page.values, <<>>) ELSE <<1>>

\* the text of a player page's error-message block
ErrorTexts == {<<"G", "e", "o">>, <<"\n", " ", "G", "o", "n", "e", " ", "\n">>}

PlayerPages ==
    [hasError : {FALSE}, error : {<<>>}, marker : BOOLEAN, token : BOOLEAN]
        \cup [hasError : {TRUE}, error : ErrorTexts, marker : BOOLEAN, token : BOOLEAN]

\* a resolver that looks for the redirect token before the error block
Stage2OutcomeTokenFirst(page) ==
    IF page.marker /\ page.token THEN "ok"
    ELSE IF page.hasError THEN "error_block"
    ELSE IF ~page.marker THEN "no_marker_script"
    ELSE "no_redirect_token"

\* stage 2 of get_video_url: what the player page leads to
Stage2Outcome(page) ==
    IF page.hasError THEN "error_block"
    ELSE IF ~page.marker THEN "no_marker_script"
    ELSE IF ~page.token THEN "no_redirect_token"
    ELSE "ok"

Stage3Responses == {"ok", "not_callback_wrapped", "not_json", "no_url_field"}

\* stage 3 of get_video_url: json.loads(re.search(...).group(1))['url']
Stage3Outcome(resp) ==
    CASE resp = "not_callback_wrapped" -> "AttributeError"
      [] resp = "not_json" -> "JSONDecodeError"
      [] resp = "no_url_field" -> "KeyError"
      [] OTHER -> "ok"

\* get_audio_channels' layouts table
Layouts ==
    [l \in {"mono", "stereo", "5.1(side)"} |->
        CASE l = "mono" -> <<"1", ".", "0">>
          [] l = "stereo" -> <<"2", ".", "0">>
          [] OTHER -> <<"5", ".", "1">>]

ChannelLayouts == {"mono", "stereo", "5.1(side)", "7.1"}

\* @retry(PermissionError, delay=1, tries=5)
RenameTries == 5

\* a decorator that retries on every exception
RetryCatchesAnything(kind) == kind \in {"PermissionError", "FileNotFoundError"}

\* the exceptions the retry decorator catches
RetryCatches(kind) == kind = "PermissionError"

RenameOutcomes == {"ok", "PermissionError", "FileNotFoundError"}

RunNums == {NoneVal, 1, 2}

InitRun ==
    /\ pc = "construct"
    /\ options = [selector |-> FALSE, values |-> <<>>]
    /\ seasons = <<>>
    /\ has_specials = FALSE
    /\ seasonCalls = <<>>
    /\ seasonIdx = 0
    /\ episodes = <<>>
    /\ epIdx = 0
    /\ requests = <<>>
    /\ playerPage = [hasError |-> FALSE, error |-> <<>>, marker |-> FALSE, token |-> FALSE]
    /\ cond = "none"
    /\ exc = NoExc
    /\ ran = {}
    /\ tempFile \in BOOLEAN
    /\ audio_channels = <<>>
    /\ tries = 0
    /\ attempts = 0
    /\ renamed = "none"

\* Show.__init__ and _populate, and the handler of ShowDoesNotExistError in main
ShowPopulate ==
    /\ pc = "construct"
    /\ \E status \in {200, 404}, page \in SelectorPages, specials \in BOOLEAN :
          IF status = 404
          THEN /\ exc' = Raise("ShowDoesNotExistError", <<>>)
               /\ pc' = "done"
               /\ UNCHANGED <<options, seasons, has_specials>>
          ELSE /\ options' = page
               /\ seasons' = ShowSeasons(page)
               /\ has_specials' = specials
               /\ pc' = "get_show"
               /\ exc' = exc
    /\ UNCHANGED <<seasonCalls, seasonIdx, episodes, epIdx, requests, playerPage,
                   cond, ran, tempFile, audio_channels, tries, attempts, renamed>>
    /\ UNCHANGED <<varsSort, varsParse, varsName>>

SpecialsCalled == \E i \in 1..Len(seasonCalls) : seasonCalls[i].kind = "specials"

\* get_show: the next get_season call, or the end of the run
GetShowNext ==
    /\ pc = "get_show"
    /\ IF seasonIdx < Len(seasons)
       THEN /\ seasonIdx' = seasonIdx + 1
            /\ seasonCalls' = Append(seasonCalls, [kind |-> "season", num |-> seasons[seasonIdx + 1]])
            /\ pc' = "get_season"
       ELSE IF has_specials /\ ~SpecialsCalled
       THEN /\ seasonCalls' = Append(seasonCalls, [kind |-> "specials", num |-> 0])
            /\ pc' = "get_season"
            /\ seasonIdx' = seasonIdx
       ELSE /\ pc' = "done"
            /\ UNCHANGED <<seasonCalls, seasonIdx>>
    /\ UNCHANGED <<options, seasons, has_specials, episodes, epIdx, requests, playerPage,
                   cond, exc, ran, tempFile, audio_channels, tries, attempts, renamed>>
    /\ UNCHANGED <<varsSort, varsParse, varsName>>

\* get_season's Season(url): the fetch, the scan and the sort, and the
\* handler of VideoError
SeasonPopulate ==
    /\ pc = "get_season"
    /\ \E outcome \in {"ok", "redirect"},
          nums \in SeqsUpTo(RunNums, MaxEpisodes), ver \in PyVersions :
          CASE outcome = "redirect" ->
                  /\ exc' = Raise("VideoError", SeasonDoesNotExistMsg)
                  /\ pc' = "get_show"
                  /\ UNCHANGED <<episodes, epIdx>>
            [] OTHER ->
                  /\ episodes' = ListSort(MkEpisodes(nums), ver)
                  /\ epIdx' = 0
                  /\ exc' = NoExc
                  /\ pc' = "season_loop"
    /\ UNCHANGED <<options, seasons, has_specials, seasonCalls, seasonIdx, requests,
                   playerPage, cond, ran, tempFile, audio_channels, tries, attempts, renamed>>
    /\ UNCHANGED <<varsSort, varsParse, varsName>>

\* get_season: for curr_episode in curr_season.episodes: get_episode(...)
SeasonLoop ==
    /\ pc = "season_loop"
    /\ IF epIdx < Len(episodes)
       THEN /\ epIdx' = epIdx + 1
            /\ pc' = "get_episode"
       ELSE /\ pc' = "get_show"
            /\ epIdx' = epIdx
    /\ requests' = <<>>
    /\ playerPage' = [hasError |-> FALSE, error |-> <<>>, marker |-> FALSE, token |-> FALSE]
    /\ cond' = "none"
    /\ exc' = NoExc
    /\ ran' = {}
    /\ audio_channels' = <<>>
    /\ tries' = 0
    /\ attempts' = 0
    /\ renamed' = "none"
    /\ UNCHANGED <<options, seasons, has_specials, seasonCalls, seasonIdx, episodes, tempFile>>
    /\ UNCHANGED <<varsSort, varsParse, varsName>>

\* get_episode up to the duplicate check: stale temp files are removed
GetEpisodeStart ==
    /\ pc = "get_episode"
    /\ tempFile' = FALSE
    /\ \E dupe \in BOOLEAN : pc' = IF dupe THEN "season_loop" ELSE "stage1"
    /\ UNCHANGED <<options, seasons, has_specials, seasonCalls, seasonIdx, episodes, epIdx,
                   requests, playerPage, cond, exc, ran, audio_channels, tries, attempts,
                   renamed>>
    /\ UNCHANGED <<varsSort, varsParse, varsName>>

\* get_video_url, stage 1: the episode page and its video id
ResolveStage1 ==
    /\ pc = "stage1"
    /\ requests' = Append(requests, "episode_page")
    /\ \E hasId \in BOOLEAN :
          IF hasId
          THEN /\ pc' = "stage2"
               /\ UNCHANGED <<cond, exc>>
          ELSE /\ cond' = "no_video_id"
               /\ exc' = Raise("AttributeError", <<>>)
               /\ pc' = "crashed"
    /\ UNCHANGED <<options, seasons, has_specials, seasonCalls, seasonIdx, episodes, epIdx,
                   playerPage, ran, tempFile, audio_channels, tries, attempts, renamed>>
    /\ UNCHANGED <<varsSort, varsParse, varsName>>

\* get_video_url, stage 2: the player page, and get_episode's handler of
\* VideoError
ResolveStage2 ==
    /\ pc = "stage2"
    /\ requests' = Append(requests, "player_page")
    /\ \E page \in PlayerPages :
          /\ playerPage' = page
          /\ CASE Stage2Outcome(page) = "error_block" ->
                    /\ cond' = "error_block"
                    /\ exc' = Raise("VideoError", Strip(page.error))
                    /\ pc' = "season_loop"
               [] Stage2Outcome(page) = "no_marker_script" ->
                    /\ cond' = "no_marker_script"
                    /\ exc' = Raise("IndexError", <<>>)
                    /\ pc' = "crashed"
               [] Stage2Outcome(page) = "no_redirect_token" ->
                    /\ cond' = "no_redirect_token"
                    /\ exc' = Raise("VideoError", TokenNotFoundMsg)
                    /\ pc' = "season_loop"
               [] OTHER ->
                    /\ pc' = "stage3"
                    /\ UNCHANGED <<cond, exc>>
    /\ UNCHANGED <<options, seasons, has_specials, seasonCalls, seasonIdx, episodes, epIdx,
                   ran, tempFile, audio_channels, tries, attempts, renamed>>
    /\ UNCHANGED <<varsSort, varsParse, varsName>>

\* get_video_url, stage 3: the redirect-resolution endpoint
ResolveStage3 ==
    /\ pc = "stage3"
    /\ requests' = Append(requests, "redirect")
    /\ \E resp \in Stage3Responses :
          IF Stage3Outcome(resp) = "ok"
          THEN /\ pc' = "download"
               /\ UNCHANGED <<cond, exc>>
          ELSE /\ cond' = "bad_stage3_response"
               /\ exc' = Raise(Stage3Outcome(resp), <<>>)
               /\ pc' = "crashed"
    /\ UNCHANGED <<options, seasons, has_specials, seasonCalls, seasonIdx, episodes, epIdx,
                   playerPage, ran, tempFile, audio_channels, tries, attempts, renamed>>
    /\ UNCHANGED <<varsSort, varsParse, varsName>>

\* subprocess.run(["youtube-dl", ...]): its result is not looked at
Download ==
    /\ pc = "download"
    /\ ran' = ran \cup {"downloader"}
    /\ tempFile' \in BOOLEAN
    /\ pc' = "probe"
    /\ UNCHANGED <<options, seasons, has_specials, seasonCalls, seasonIdx, episodes, epIdx,
                   requests, playerPage, cond, exc, audio_channels, tries, attempts, renamed>>
    /\ UNCHANGED <<varsSort, varsParse, varsName>>

\* episode.populate_attributes_from_file(temp_path)
Probe ==
    /\ pc = "probe"
    /\ ran' = ran \cup {"prober"}
    /\ IF ~tempFile
       THEN /\ exc' = Raise("CalledProcessError", <<>>)
            /\ pc' = "crashed"
            /\ UNCHANGED <<audio_channels, tries>>
       ELSE \E layout \in ChannelLayouts :
               IF layout \in DOMAIN Layouts
               THEN /\ audio_channels' = Layouts[layout]
                    /\ tries' = RenameTries
                    /\ pc' = "rename"
                    /\ exc' = exc
               ELSE /\ exc' = Raise("ValueError", <<>>)
                    /\ pc' = "crashed"
                    /\ UNCHANGED <<audio_channels, tries>>
    /\ UNCHANGED <<options, seasons, has_specials, seasonCalls, seasonIdx, episodes, epIdx,
                   requests, playerPage, cond, tempFile, attempts, renamed>>
    /\ UNCHANGED <<varsSort, varsParse, varsName>>

\* rename_file: one os.rename, under the retry decorator
RenameAttempt ==
    /\ pc = "rename"
    /\ ran' = ran \cup {"rename"}
    /\ attempts' = attempts + 1
    /\ \E outcome \in RenameOutcomes :
          IF outcome = "ok"
          THEN /\ renamed' = "ok"
               /\ tempFile' = FALSE
               /\ pc' = "season_loop"
               /\ UNCHANGED <<exc, tries>>
          ELSE /\ exc' = Raise(outcome, <<>>)
               /\ tempFile' = tempFile
               /\ IF RetryCatches(outcome) /\ tries - 1 # 0
                  THEN /\ tries' = tries - 1
                       /\ UNCHANGED <<renamed, pc>>
                  ELSE /\ tries' = IF RetryCatches(outcome) THEN tries - 1 ELSE tries
                       /\ renamed' = "raised"
                       /\ pc' = "crashed"
    /\ UNCHANGED <<options, seasons, has_specials, seasonCalls, seasonIdx, episodes, epIdx,
                   requests, playerPage, cond, audio_channels>>
    /\ UNCHANGED <<varsSort, varsParse, varsName>>

NextRun ==
    \/ ShowPopulate
    \/ GetShowNext
    \/ SeasonPopulate
    \/ SeasonLoop
    \/ GetEpisodeStart
    \/ ResolveStage1
    \/ ResolveStage2
    \/ ResolveStage3
    \/ Download
    \/ Probe
    \/ RenameAttempt

(***************************************************************************)
(* Season._populate's sort, on its own: every page-scan order of up to     *)
(* MaxScan episodes whose numbers are None or 0..MaxNum.                   *)
(***************************************************************************)
SortNums == {NoneVal} \cup 0..MaxNum

InitSort ==
    /\ pyver \in PyVersions
    /\ scan \in {MkEpisodes(nums) : nums \in SeqsUpTo(SortNums, MaxScan)}
    /\ sorted = <<>>
    /\ sortDone = FALSE

IdleSort ==
    /\ pyver = "legacy"
    /\ scan = <<>>
    /\ sorted = <<>>
    /\ sortDone = TRUE

\* self.episodes = sorted(self.episodes)
SortEpisodes ==
    /\ ~sortDone
    /\ sorted' = ListSort(scan, pyver)
    /\ sortDone' = TRUE
    /\ UNCHANGED <<pyver, scan>>
    /\ UNCHANGED <<varsRun, varsParse, varsName>>

(***************************************************************************)
(* Season._populate's classification of one episode's metadata fragment.   *)
(***************************************************************************)
\* an optional string: None, or a string
NoStr == [some |-> FALSE, val |-> <<>>]

SomeStr(v) == [some |-> TRUE, val |-> v]

\* an optional datetime: None, or a calendar date
NoDate == [some |-> FALSE, y |-> 0, m |-> 0, d |-> 0]

SomeDate(y, m, d) == [some |-> TRUE, y |-> y, m |-> m, d |-> d]

\* r'S(\d{1,2}) Ep(\d{1,2}) \| ', group 2
RxEpisodeShort ==
    [pre |-> <<"S", "(", "\\", "d", "{", "1", ",", "2", "}", ")", " ", "E", "p">>, grp |-> <<"(", "\\", "d", "{", "1", ",", "2", "}", ")">>, posts |-> <<<<" ", "\\", "|", " ">>>>]

\* r'S(\d{1,2}) Ep(\d{3,4})(( \| )|\n)', group 2
RxEpisodeLong ==
    [pre |-> <<"S", "(", "\\", "d", "{", "1", ",", "2", "}", ")", " ", "E", "p">>, grp |-> <<"(", "\\", "d", "{", "3", ",", "4", "}", ")">>, posts |-> <<<<" ", "\\", "|", " ">>, <<"\\", "n">>>>]

\* r' (\d{2}/\d{2}/\d{4}) ', group 1
RxAirDate ==
    [pre |-> <<" ">>, grp |-> <<"(", "\\", "d", "{", "2", "}", "/", "\\", "d", "{", "2", "}", "/", "\\", "d", "{", "4", "}", ")">>, posts |-> <<<<" ">>>>]

\* r'(\w+)(( \| )|\n)', group 1
RxLeadingWord ==
    [pre |-> <<>>, grp |-> <<"(", "\\", "w", "+", ")">>, posts |-> <<<<" ", "\\", "|", " ">>, <<"\\", "n">>>>]

LeapYear(y) == (y % 4 = 0 /\ y % 100 # 0) \/ y % 400 = 0

DaysInMonth(y, m) ==
    IF m = 2 THEN (IF LeapYear(y) THEN 28 + 1 ELSE 28)
    ELSE IF m \in {4, 6, 9, 11} THEN 30
    ELSE 31

\* datetime.strptime(text, '%m/%d/%Y') of a text dd/dd/dddd
Strptime(text) ==
    LET m == ParseInt(SubSeq(text, 1, 2))
        d == ParseInt(SubSeq(text, 4, 5))
        y == ParseInt(SubSeq(text, 7, 10))
    IN  IF m \in 1..12 /\ y >= 1 /\ d \in 1..DaysInMonth(y, m)
        THEN [ok |-> TRUE, date |-> SomeDate(y, m, d)]
        ELSE [ok |-> FALSE, date |-> NoDate]

\* s[-2:]
LastTwo(s) == SubSeq(s, Len(s) - 1, Len(s))

Fields(num, date, group, e) ==
    [done |-> TRUE, num |-> num, date |-> date, additional_group |-> group, exc |-> e]

\* the chain of Season._populate: the arguments of Episode(...) for a fragment
ClassifyInfo(text) ==
    IF ReSearchGroup(RxEpisodeShort, text).found
    THEN Fields(ParseInt(ReSearchGroup(RxEpisodeShort, text).group), NoDate, NoStr, "none")
    ELSE IF ReSearchGroup(RxEpisodeLong, text).found
    THEN Fields(ParseInt(LastTwo(ReSearchGroup(RxEpisodeLong, text).group)), NoDate, NoStr,
                "none")
    ELSE IF ReSearchGroup(RxAirDate, text).found
    THEN IF Strptime(ReSearchGroup(RxAirDate, text).group).ok
         THEN Fields(NoneVal, Strptime(ReSearchGroup(RxAirDate, text).group).date, NoStr,
                     "none")
         ELSE Fields(NoneVal, NoDate, NoStr, "ValueError")
    ELSE IF ReSearchGroup(RxLeadingWord, text).found
    THEN Fields(NoneVal, NoDate, SomeStr(ReSearchGroup(RxLeadingWord, text).group), "none")
    ELSE Fields(NoneVal, NoDate, NoStr, "AttributeError")

\* what follows the identity token on the page: a separator and the running
\* time, or the end of the line
Endings == {<<" ", "|", " ", "2", "6", "m">>, <<" ", "|", " ", "1", "h", " ", "2", "m">>, <<"\n">>}

\* the ways the site writes a numbered episode: season s, episode n, the
\* episode field plain ("5"), padded ("05") or with the season prepended by
\* mistake ("205", "0205", and "200" for an episode 0)
PairFragments ==
    {f \in [kind : {"pair"}, season : {2, 12}, seasonPadded : BOOLEAN, n : {0, 5, 12},
            style : {"plain", "padded", "prefixed"}, y : {0}, m : {0}, d : {0},
            word : {<<>>}, ending : Endings] :
        f.n = 0 => f.style = "prefixed"}

DateFragments ==
    [kind : {"date"}, season : {0}, seasonPadded : {FALSE}, n : {0}, style : {"plain"},
     y : {2020, 2021}, m : {2, 11}, d : {9, 23}, word : {<<>>}, ending : Endings]

WordFragments ==
    [kind : {"word"}, season : {0}, seasonPadded : {FALSE}, n : {0}, style : {"plain"},
     y : {0}, m : {0}, d : {0}, word : {<<"C", "l", "i", "p">>, <<"P", "r", "e", "v", "i", "e", "w">>}, ending : Endings]

Fragments == PairFragments \cup DateFragments \cup WordFragments

SeasonField(f) == IF f.seasonPadded THEN Fmt02d(f.season) ELSE Str(f.season)

EpisodeField(f) ==
    CASE f.style = "plain" -> Str(f.n)
      [] f.style = "padded" -> Fmt02d(f.n)
      [] OTHER -> SeasonField(f) \o Fmt02d(f.n)

RECURSIVE ZeroPad(_, _)
ZeroPad(s, width) == IF Len(s) >= width THEN s ELSE ZeroPad(<<"0">> \o s, width)

\* the text of the fragment, as found in the page
FragmentText(f) ==
    CASE f.kind = "pair" -> <<"S">> \o SeasonField(f) \o <<" ", "E", "p">> \o EpisodeField(f) \o f.ending
      [] f.kind = "date" ->
            <<"\n", " ">> \o Fmt02d(f.m) \o <<"/">> \o Fmt02d(f.d) \o <<"/">>
                \o ZeroPad(Str(f.y), 4) \o f.ending
      [] OTHER -> f.word \o f.ending

NotParsed == [done |-> FALSE, num |-> NoneVal, date |-> NoDate, additional_group |-> NoStr,
              exc |-> "none"]

InitParse ==
    /\ frag \in Fragments
    /\ info = FragmentText(frag)
    /\ parsed = NotParsed

\* one turn of the loop over the page's episode items
ClassifyEpisode ==
    /\ ~parsed.done
    /\ parsed' = ClassifyInfo(info)
    /\ UNCHANGED <<frag, info>>
    /\ UNCHANGED <<varsRun, varsSort, varsName>>

(***************************************************************************)
(* Names: Season.get_folder_name, Episode.get_filename,                    *)
(* Episode.get_dupe_check_regex and dupe_exists.                           *)
(***************************************************************************)
RECURSIVE Replace(_, _, _)
\* str.replace(c, r) for a one-character c
Replace(s, c, r) ==
    IF s = <<>> THEN <<>>
    ELSE (IF Head(s) = c THEN r ELSE <<Head(s)>>) \o Replace(Tail(s), c, r)

RECURSIVE CollapseDots(_)
\* re.sub(r'\.+', '.', s)
CollapseDots(s) ==
    IF Len(s) < 2 THEN s
    ELSE IF s[1] = "." /\ s[2] = "." THEN CollapseDots(Tail(s))
    ELSE <<s[1]>> \o CollapseDots(Tail(s))

\* f'{x}' of an optional string
FmtStr(o) == IF o.some THEN o.val ELSE <<"N", "o", "n", "e">>

\* f'{x}' of an optional int
FmtInt(n) == IF n = NoneVal THEN <<"N", "o", "n", "e">> ELSE Str(n)

\* datetime.strftime(date, '%Y-%m-%d')
Strftime(date) ==
    ZeroPad(Str(date.y), 4) \o <<"-">> \o Fmt02d(date.m) \o <<"-">> \o Fmt02d(date.d)

\* r'Season (\d{1,3})', group 1
RxSeasonHeading == [pre |-> <<"S", "e", "a", "s", "o", "n", " ">>, grp |-> <<"(", "\\", "d", "{", "1", ",", "3", "}", ")">>, posts |-> <<<<>>>>]

\* Season._populate: the season's identity from the page heading
SeasonOf(title, heading) ==
    IF ReSearchGroup(RxSeasonHeading, Strip(heading)).found
    THEN [title |-> title, num |-> ParseInt(ReSearchGroup(RxSeasonHeading, Strip(heading)).group),
          additional_group |-> NoStr]
    ELSE [title |-> title, num |-> NoneVal, additional_group |-> SomeStr(Strip(heading))]

\* Season.get_normalized_name
NormalizedName(season) == Replace(Replace(season.title, " ", <<".">>), ";", <<>>)

\* f'-{GROUP}' if GROUP else ''
GroupSuffix(GROUP) == IF GROUP.some /\ GROUP.val # <<>> THEN <<"-">> \o GROUP.val ELSE <<>>

\* Season.get_folder_name
FolderName(season, GROUP) ==
    IF Truthy(season.num)
    THEN NormalizedName(season) \o <<".", "S">> \o Fmt02d(season.num)
            \o <<".", "W", "E", "B", ".", "h", "2", "6", "4", ".", "A", "A", "C">> \o GroupSuffix(GROUP)
    ELSE NormalizedName(season) \o <<".">> \o FmtStr(season.additional_group)
            \o <<".", "W", "E", "B", ".", "h", "2", "6", "4", ".", "A", "A", "C">> \o GroupSuffix(GROUP)

\* Episode.get_normalized_title
NormalizedTitle(ep) ==
    CollapseDots(
        Replace(Replace(Replace(Replace(Replace(Replace(Replace(Replace(Replace(Replace(Replace(
            ep.title, " ", <<".">>), ";", <<>>), ",", <<>>), "/", <<".">>), "\\", <<".">>),
            "'", <<>>), "\"", <<>>), "-", <<".">>), "?", <<>>), ":", <<>>), "|", <<".">>))

\* the part of a file name, and of the duplicate pattern, that identifies
\* the episode: the branches of get_filename and get_dupe_check_regex
NameStem(season, ep) ==
    IF Truthy(season.num) /\ Truthy(ep.num)
    THEN NormalizedName(season) \o <<".", "S">> \o Fmt02d(season.num) \o <<"E">>
            \o Fmt02d(ep.num) \o <<".">> \o NormalizedTitle(ep) \o <<".">>
    ELSE IF Truthy(season.num) /\ ep.date.some
    THEN NormalizedName(season) \o <<".", "S">> \o Fmt02d(season.num) \o <<".">>
            \o Strftime(ep.date) \o <<".">> \o NormalizedTitle(ep) \o <<".">>
    ELSE NormalizedName(season) \o <<".">> \o FmtStr(ep.additional_group) \o <<".">>
            \o NormalizedTitle(ep) \o <<".">>

\* Episode.get_filename
Filename(season, ep, GROUP) ==
    NameStem(season, ep) \o FmtInt(ep.resolution) \o <<"p", ".", "W", "E", "B", ".">> \o FmtStr(ep.video_codec)
        \o <<".">> \o FmtStr(ep.audio_codec) \o <<".">> \o FmtStr(ep.audio_channels)
        \o GroupSuffix(GROUP) \o <<".", "m", "p", "4">>

\* Episode.get_dupe_check_regex
DupeCheckRegex(season, ep, GROUP) ==
    NameStem(season, ep) \o <<"\\", "d", "{", "2", ",", "4", "}">> \o <<"p", ".", "W", "E", "B", ".", "\\", "w", "+", ".", "\\", "w", "+", ".", "\\", "d", ".", "\\", "d">> \o GroupSuffix(GROUP) \o <<".", "m", "p", "4">>

\* dupe_exists
DupeExists(season, ep, GROUP, folders) ==
    IF FolderName(season, GROUP) \notin DOMAIN folders THEN FALSE
    ELSE \E file \in folders[FolderName(season, GROUP)] :
            ReSearch(DupeCheckRegex(season, ep, GROUP), file)

\* Episode(season, title, url, num, date, additional_group): not probed yet
NewEpisode(title, id) ==
    [title |-> title, num |-> id.num, date |-> id.date, additional_group |-> id.additional_group,
     resolution |-> NoneVal, video_codec |-> NoStr, audio_codec |-> NoStr,
     audio_channels |-> NoStr]

\* Episode.populate_attributes_from_file: what ffprobe reports of the file
Probed(ep, height, vcodec, acodec, layout) ==
    [ep EXCEPT !.resolution = height, !.video_codec = SomeStr(vcodec),
               !.audio_codec = SomeStr(ToUpper(acodec)),
               !.audio_channels = SomeStr(Layouts[layout])]

ShowTitles == {<<"S", "h", "o", "w", " ", "N", "a", "m", "e">>}

SeasonHeadings == {<<"S", "e", "a", "s", "o", "n", " ", "3">>, <<" ", "S", "e", "a", "s", "o", "n", " ", "1", "2", " ">>, <<"S", "p", "e", "c", "i", "a", "l", "s">>}

EpisodeTitles == {<<"T", "h", "e", " ", "B", "i", "g", " ", "O", "n", "e">>, <<"F", "i", "n", "a", "l", "e", " ", "(", "2", ")">>}

\* the identities Season._populate gives an episode (a number, 0 for a
\* field such as 100; a date; a group); the episodes of a page that is not
\* a numbered season are taken to carry a group
EpisodeIdentities ==
    {Fields(7, NoDate, NoStr, "none"),
     Fields(0, NoDate, NoStr, "none"),
     Fields(NoneVal, SomeDate(2021, 11, 23), NoStr, "none"),
     Fields(NoneVal, NoDate, SomeStr(<<"C", "l", "i", "p">>), "none")}

ReleaseGroups == {NoStr, SomeStr(<<"G", "R", "P">>)}

Heights == {720, 1080}

VideoCodecs == {<<"h", "2", "6", "4">>, <<"h", "e", "v", "c">>}

AudioCodecs == {<<"a", "a", "c">>}

ProbedLayouts == {"stereo", "5.1(side)"}

InitName ==
    \E t \in ShowTitles, h \in SeasonHeadings, et \in EpisodeTitles, id \in EpisodeIdentities,
       g \in ReleaseGroups, exists \in BOOLEAN :
        /\ SeasonOf(t, h).num = NoneVal => id.additional_group.some
        /\ nm = [phase |-> "listed",
                 season |-> SeasonOf(t, h),
                 episode |-> NewEpisode(et, id),
                 GROUP |-> g,
                 folders |-> IF exists THEN [f \in {FolderName(SeasonOf(t, h), g)} |-> {}]
                             ELSE [f \in {} |-> {}],
                 filename |-> <<>>,
                 dupe |-> FALSE]

\* get_episode from the probe on, in a run that downloads the episode: the
\* file is renamed to its final name in the season's folder
ArchiveEpisode ==
    /\ nm.phase = "listed"
    /\ \E height \in Heights, vcodec \in VideoCodecs, acodec \in AudioCodecs,
          layout \in ProbedLayouts :
          LET ep == Probed(nm.episode, height, vcodec, acodec, layout)
              folder == FolderName(nm.season, nm.GROUP)
              name == Filename(nm.season, ep, nm.GROUP)
          IN  nm' = [nm EXCEPT !.phase = "archived",
                               !.filename = name,
                               !.folders = [f \in {folder} |-> {name}]]
    /\ UNCHANGED <<varsRun, varsSort, varsParse>>

\* get_episode's duplicate check in a later run, on the Episode object that
\* run built (not probed: the pattern does not use the attributes)
CheckDuplicate ==
    /\ nm.phase \in {"listed", "archived"}
    /\ nm' = [nm EXCEPT !.phase = "checked",
                        !.dupe = DupeExists(nm.season, nm.episode, nm.GROUP, nm.folders)]
    /\ UNCHANGED <<varsRun, varsSort, varsParse>>

IdleRun ==
    /\ InitRun
    /\ tempFile = FALSE

IdleParse ==
    /\ frag = CHOOSE f \in WordFragments : TRUE
    /\ info = <<>>
    /\ parsed = Fields(NoneVal, NoDate, NoStr, "none")

IdleName == nm = [phase |-> "idle"]

(***************************************************************************)
(* The specifications.                                                     *)
(***************************************************************************)
Init == InitRun /\ IdleSort /\ IdleParse /\ IdleName

Next == NextRun

Spec == Init /\ [][Next]_vars

InitSortSpec == InitSort /\ IdleRun /\ IdleParse /\ IdleName

NextSort == SortEpisodes

SpecSort == InitSortSpec /\ [][NextSort]_vars

(***************************************************************************)
(* Claims about the run (specification Spec).                              *)
(***************************************************************************)
Range(f) == {f[i] : i \in DOMAIN f}

Ascending(f) == \A i, j \in DOMAIN f : i < j => f[i] < f[j]

Terminated == pc \in {"done", "crashed"}

\* every get_season and get_episode call the catalogue asks for was made
AllSiblingsCalled ==
    /\ Len(seasonCalls) = Len(seasons) + (IF has_specials THEN 1 ELSE 0)
    /\ epIdx = Len(episodes)

\* the failures C1 lists, by the exception the code raises for them
C1Failures ==
    {"none", "VideoError", "CalledProcessError", "ValueError", "PermissionError",
     "FileNotFoundError"}

\* C1: whatever failure of the listed kinds occurs on an episode or a season
\* (a VideoError, a download that leaves no temp file, a prober failure, a
\* failed rename), the run still ends with get_season called for every season
\* and the specials, and get_episode called for every episode.
C1_FailuresNeverAbortSiblings ==
    (Terminated /\ exc.type \in C1Failures) => AllSiblingsCalled

\* the rename attempts that failed on a lock
LockFailures == RenameTries - tries

\* C2: rename_file calls os.rename at most 5 times; it succeeds at the first
\* attempt that succeeds (after 4 lock failures: at the 5th); it raises the
\* lock error after exactly 5 attempts; an error of another kind is raised at
\* the attempt it happens, with no further attempt (at the first: after 1).
C2_RenameAtMostFiveAttempts ==
    /\ attempts <= 5
    /\ renamed = "ok" => attempts = LockFailures + 1
    /\ (renamed = "raised" /\ exc.type = "PermissionError") => attempts = 5
    /\ (pc = "rename" /\ attempts > 0) => (exc.type = "PermissionError" /\ attempts = LockFailures)
    /\ exc.type = "FileNotFoundError" =>
          /\ renamed = "raised"
          /\ pc = "crashed"
          /\ attempts = LockFailures + 1

\* C2's case: four lock failures, then the fifth attempt succeeds
C2_Witness == renamed = "ok" /\ attempts = 5 /\ LockFailures = 4

\* C3: whatever the order of the selector's options, Show.seasons is
\* ascending once the show is constructed, and so is the order of the
\* numbered get_season calls.
C3_SeasonsAscending ==
    pc # "construct" =>
        /\ Ascending(seasons)
        /\ Ascending([i \in {j \in 1..Len(seasonCalls) : seasonCalls[j].kind = "season"}
                        |-> seasonCalls[i].num])

\* C4: every non-recoverable condition met by get_video_url is raised as a
\* VideoError, and get_episode then returns to get_season without running the
\* downloader, the prober or the rename.
C4_EveryConditionIsVideoError ==
    cond # "none" => (exc.type = "VideoError" /\ pc = "season_loop" /\ ran = {})

InitParseSpec == InitParse /\ IdleRun /\ IdleSort /\ IdleName

NextParse == ClassifyEpisode

SpecParse == InitParseSpec /\ [][NextParse]_vars

InitNameSpec == InitName /\ IdleRun /\ IdleSort /\ IdleParse

NextName ==
    \/ ArchiveEpisode
    \/ CheckDuplicate

SpecName == InitNameSpec /\ [][NextName]_vars

(***************************************************************************)
(* Claims about the sort (specification SpecSort).                         *)
(***************************************************************************)
\* C6: when some episodes of the page have a number and some have none, the
\* episodes that have a number are, after the sort, in ascending order of
\* number among themselves, wherever the others sit.
C6_NumberedEpisodesAscending ==
    (/\ sortDone
     /\ \E i \in 1..Len(scan) : scan[i].num = NoneVal
     /\ \E i \in 1..Len(scan) : scan[i].num # NoneVal) =>
        \A i, j \in 1..Len(sorted) :
            (i < j /\ sorted[i].num # NoneVal /\ sorted[j].num # NoneVal)
                => sorted[i].num <= sorted[j].num

\* C10: after the sort, the episodes that have no number are in page-scan
\* order among themselves.
C10_UnnumberedKeepScanOrder ==
    sortDone =>
        \A i, j \in 1..Len(sorted) :
            (i < j /\ sorted[i].num = NoneVal /\ sorted[j].num = NoneVal)
                => sorted[i].pos < sorted[j].pos

(***************************************************************************)
(* Claims about the classification (specification SpecParse).              *)
(***************************************************************************)
\* the Episode fields the four rules give the fragment the site wrote
C7Expected(f) ==
    CASE f.kind = "pair" -> Fields(f.n, NoDate, NoStr, "none")
      [] f.kind = "date" -> Fields(NoneVal, SomeDate(f.y, f.m, f.d), NoStr, "none")
      [] OTHER -> Fields(NoneVal, NoDate, SomeStr(f.word), "none")

\* C7: a season/episode pair gives number = the episode (the field itself
\* when it has 1-2 digits, its last two digits when it has 3-4); a date with
\* no pair gives the date; anything else gives the leading word as group; and
\* exactly one of number, date, additionalGroup is set.
C7_ClassificationFollowsTheFourRules ==
    parsed.done =>
        /\ parsed = C7Expected(frag)
        /\ Cardinality({k \in {"number", "date", "additionalGroup"} :
                \/ k = "number" /\ parsed.num # NoneVal
                \/ k = "date" /\ parsed.date.some
                \/ k = "additionalGroup" /\ parsed.additional_group.some}) = 1

(***************************************************************************)
(* Claims about the names (specification SpecName).                        *)
(***************************************************************************)
StartsWith(s, prefix) == Len(prefix) <= Len(s) /\ SubSeq(s, 1, Len(prefix)) = prefix

\* C5: once a file named get_filename() for some probed attributes is in the
\* destination folder, dupe_exists is true of that episode; and it is false
\* when the folder does not exist.
C5_ArchivedEpisodeIsADuplicate ==
    nm.phase = "checked" =>
        /\ (\E f \in DOMAIN nm.folders : nm.filename \in nm.folders[f]) => nm.dupe
        /\ DOMAIN nm.folders = {} => ~nm.dupe

\* C8: the file name carries S<season>E<episode> when the episode's number is
\* set in a numbered season (0 included), S<season>.<date> when its date is
\* set, and the group label otherwise; the identity token never comes from an
\* unset field.
C8_TemplateFollowsTheSetField ==
    nm.phase = "archived" =>
        LET se == nm.season
            ep == nm.episode
            show == NormalizedName(se)
            numbered == se.num # NoneVal /\ ep.num # NoneVal
            dated == se.num # NoneVal /\ ep.num = NoneVal /\ ep.date.some
        IN  /\ numbered =>
                  StartsWith(nm.filename, show \o <<".", "S">> \o Fmt02d(se.num) \o <<"E">>
                                            \o Fmt02d(ep.num) \o <<".">>)
            /\ dated =>
                  StartsWith(nm.filename, show \o <<".", "S">> \o Fmt02d(se.num) \o <<".">>
                                            \o Strftime(ep.date) \o <<".">>)
            /\ (~numbered /\ ~dated) =>
                  /\ ep.additional_group.some
                  /\ StartsWith(nm.filename, show \o <<".">> \o ep.additional_group.val \o <<".">>)

====
